---- MODULE Spec2Model ----
(***************************************************************************)
(* A model of the tracing library: Tracers (clients) that tick a vector    *)
(* clock and send action records over synchronous RPC, Traces and tokens,  *)
(* and the TracingServer that appends every record to a JSON sink and a    *)
(* ShiViz sink.                                                            *)
(*                                                                         *)
(* The Tracer and Trace operations follow the newest snapshot of the       *)
(* client (src/server.go 335-562, src/trace.go); the server's record       *)
(* handler follows src/server.go 177-192.  The server side of GetLastVC    *)
(* and its last-known-clock table are not among the sources: they are      *)
(* modelled from the specification (GetLastVC, StoreLastVC).               *)
(*                                                                         *)
(* The vector clock itself lives in the GoVector dependency.  Its mutex    *)
(* makes LogLocalEvent, PrepareSend, UnpackReceive and GetCurrentVC each   *)
(* one atomic step; nothing makes two of them atomic together.             *)
(* UnpackReceive both ticks the receiver's entry and merges the incoming   *)
(* clock; the order of the two is the library's and both orders are        *)
(* admitted (tickFirst).                                                   *)
(*                                                                         *)
(* Init is the state after NewTracingServer, Open and `go Accept()`; under  *)
(* Spec the server stays open.  LifeSpec starts from NewTracingServer and   *)
(* adds Open, Accept and Close to a smaller load of client calls.           *)
(* PrintSpec adds SetShouldPrint, records json.Marshal rejects and write    *)
(* errors of the ShiViz sink to a smaller load of client calls on the open  *)
(* server.  LifeFairSpec is LifeSpec with the goroutines of Accept and      *)
(* Close scheduled fairly.  LockSpec lets both threads call ReceiveToken    *)
(* while Tracer.Close and SetShouldPrint are called at any moment the       *)
(* Tracer's mutex allows; a closed Tracer starts no operation.              *)
(* A clock is a function on Idents; 0 stands for an absent entry.          *)
(* Fields inst, seq, tickVC, preVC of a record, the fields rejoined, seed,  *)
(* ticks of a tracer and the variable produced are history: the program    *)
(* does not hold them, the properties read them.                           *)
(* The field echoes of a tracer counts the echo lines it has printed to    *)
(* its local log.                                                          *)
(***************************************************************************)
EXTENDS Integers, Sequences, FiniteSets, TLC

MaxThreads == 2
MaxTracers == 3
MaxOps == 4
MaxTraceID == 2
MaxFails == 1
MaxOverlap == 1
MaxOpens == 2
MaxLifeOps == 3

Idents == {"client1", "client2"}

\* TracerConfig.TracerIdentity of each Tracer instance: odd instances are
\* incarnations of client1, even ones of client2
ConfigIdentity(t) == IF t % 2 = 1 THEN "client1" ELSE "client2"

\* the first Tracer of its identity (the later ones rejoin)
FirstInstance(t) == \A u \in 1..(t - 1) : ConfigIdentity(u) # ConfigIdentity(t)

Threads == 1..MaxThreads
Tracers == 1..MaxTracers
TraceIDs == 1..MaxTraceID

VARIABLES tracer, thr, traces, tokens, jsonSink, shivizSink, lastVCs, produced, nOps, nFails, nOverlap, srv

vars == <<tracer, thr, traces, tokens, jsonSink, shivizSink, lastVCs, produced, nOps, nFails, nOverlap, srv>>

Max(a, b) == IF a < b THEN b ELSE a

(* ---------------- vector clock (GoVector vclock / GoLog) ---------------- *)

EmptyVC == [k \in Idents |-> 0]

\* vclock.Tick, as LogLocalEvent and PrepareSend apply it to the own entry
Tick(vc, id) == [vc EXCEPT ![id] = @ + 1]

\* vclock.Merge: entry-wise maximum
Merge(own, other) == [k \in Idents |-> IF own[k] < other[k] THEN other[k] ELSE own[k]]

\* GoLog.UnpackReceive on the decoded clock: one tick of the own entry and one
\* merge, in the library's order
UnpackReceive(own, id, incoming, tickFirst) ==
    IF tickFirst THEN Merge(Tick(own, id), incoming)
                 ELSE Tick(Merge(own, incoming), id)

(* ---------------- tokens, records ---------------- *)

NoToken == [pid |-> "", vc |-> EmptyVC, traceID |-> 0]

\* (mutant) the payload is encoded before the tick
PrepareSendStale(vc, id, traceID) == [pid |-> id, vc |-> vc, traceID |-> traceID]

\* GoLog.PrepareSend(mesg, trace.ID): the payload {Pid, VcMap, Payload} after the tick
PrepareSend(vc, id, traceID) == [pid |-> id, vc |-> Tick(vc, id), traceID |-> traceID]

\* the Record field when json.Marshal returned an error: the nil slice, which the
\* server's encoder writes as null
NilBody == [pid |-> "null", vc |-> EmptyVC, traceID |-> 0]

\* json.Marshal(record): the body of the action, or nil for a record it rejects
\* (a struct with a channel or function field, a NaN); the error is only logged
Marshal(op, tok) == IF op = "BadAction" THEN NilBody ELSE tok

NoRecord == [TracerIdentity |-> "", TraceID |-> 0, Tag |-> "", Body |-> NoToken,
             VectorClock |-> EmptyVC, inst |-> 0, seq |-> 0, tickVC |-> EmptyVC,
             preVC |-> EmptyVC]

NoVC == [ok |-> FALSE, vc |-> EmptyVC]

IdleThread == [pc |-> "idle", op |-> "", t |-> 0, traceID |-> 0, tok |-> NoToken,
               seq |-> 0, tickVC |-> EmptyVC, preVC |-> EmptyVC, rec |-> NoRecord]

Unborn == [state |-> "unborn", identity |-> "", clock |-> EmptyVC, lock |-> 0,
           rejoined |-> FALSE, seed |-> EmptyVC, ticks |-> 0, shouldPrint |-> TRUE,
           echoes |-> 0]

\* the ShiViz sink right after newShivizLogger: the header and an empty line
ShivizHeader == << [kind |-> "header"], [kind |-> "blank"] >>

\* the TracingServer after NewTracingServer: no listener, no files.  listener is
\* Listener (nil, open, closed); accept is the goroutine running Accept (none,
\* running, exiting: blocked on sending acceptDone); files stands for recordFile
\* and shivizRecordFile (nil: never created, open, closed); close is the
\* position of a Close call (idle, wait: blocked on receiving acceptDone); ret
\* is what the last Open or Close returned; opens counts the Open calls.
Unopened == [listener |-> "nil", accept |-> "none", files |-> "nil", close |-> "idle",
             ret |-> "", opens |-> 0]

\* the TracingServer after Open and `go Accept()`
Opened == [listener |-> "open", accept |-> "running", files |-> "open", close |-> "idle",
           ret |-> "ok", opens |-> 1]

Init ==
    /\ tracer = [t \in Tracers |-> Unborn]
    /\ thr = [th \in Threads |-> IdleThread]
    /\ traces = {}
    /\ tokens = {}
    /\ jsonSink = << >>
    /\ shivizSink = ShivizHeader
    /\ lastVCs = [k \in Idents |-> NoVC]
    /\ produced = [k \in Idents |-> NoVC]
    /\ nOps = 0
    /\ nFails = 0
    /\ nOverlap = 0
    /\ srv = Opened

(* ---------------- server: last-known-clock table ---------------- *)

\* RPCProvider.GetLastVC: the table entry, or an error for an unseen identity
GetLastVC(id) == lastVCs[id]

\* the table write of the server's RecordAction: last writer wins
StoreLastVC(table, id, vc) == [table EXCEPT ![id] = [ok |-> TRUE, vc |-> vc]]

(* ---------------- Tracer construction ---------------- *)

\* (mutant) the reply of GetLastVC is dropped: every Tracer starts empty
InitialClockEmpty(reply) == EmptyVC

\* NewTracer: goLogConfig.InitialVC = initialVC.Copy() when GetLastVC returned no error
InitialClock(reply) == IF reply.ok THEN reply.vc ELSE EmptyVC

\* (mutant) a failing GetLastVC is fatal, as a failing rpc.Dial is
NewTracerFatal(t) ==
    /\ tracer[t].state = "unborn"
    /\ srv.listener = "open" /\ srv.accept = "running"
    /\ GetLastVC(ConfigIdentity(t)).ok
    /\ tracer' = [tracer EXCEPT ![t] =
                    [state |-> "live", identity |-> ConfigIdentity(t),
                     clock |-> GetLastVC(ConfigIdentity(t)).vc, lock |-> 0,
                     rejoined |-> TRUE, seed |-> GetLastVC(ConfigIdentity(t)).vc,
                     ticks |-> 0, shouldPrint |-> TRUE, echoes |-> 0]]
    /\ UNCHANGED <<srv, thr, traces, tokens, jsonSink, shivizSink, lastVCs, produced,
                   nOps, nFails, nOverlap>>

NewTracer(t) ==
    /\ tracer[t].state = "unborn"
    /\ srv.listener = "open" /\ srv.accept = "running"
    /\ \A u \in Tracers : (u < t /\ ConfigIdentity(u) = ConfigIdentity(t)) => tracer[u].state # "unborn"
    /\ FirstInstance(t) => nOps = 0
    /\ LET id == ConfigIdentity(t)
           reply == GetLastVC(id) IN
       tracer' = [tracer EXCEPT ![t] =
                    [state |-> "live", identity |-> id, clock |-> InitialClock(reply),
                     lock |-> 0, rejoined |-> reply.ok,
                     seed |-> reply.vc, ticks |-> 0, shouldPrint |-> TRUE, echoes |-> 0]]
    /\ UNCHANGED <<srv, thr, traces, tokens, jsonSink, shivizSink, lastVCs, produced, nOps, nFails, nOverlap>>

(* ---------------- Tracer and Trace operations ---------------- *)

\* (mutant) the echo sits inside the isLocalEvent branch
EchoedLocalOnly(shouldPrint, isLocalEvent, n) ==
    IF shouldPrint /\ isLocalEvent THEN n + 1 ELSE n

\* recordAction: `if tracer.shouldPrint { log.Print(getLogString(trace, record)) }`,
\* after the clock step and before json.Marshal and client.Call; n counts the
\* echo lines the Tracer has printed
Echoed(shouldPrint, isLocalEvent, n) == IF shouldPrint THEN n + 1 ELSE n

CanStart(th, t) ==
    /\ thr[th].pc = "idle"
    /\ \A o \in Threads : o < th => thr[o].pc # "idle"
    /\ tracer[t].state = "live"
    /\ nOps < MaxOps
    /\ (th > 1) => nOverlap < MaxOverlap

\* one more operation is under way
Started(th) ==
    /\ nOps' = nOps + 1
    /\ nOverlap' = IF th > 1 THEN nOverlap + 1 ELSE nOverlap

\* own counters of the records the server has received from identity id
SeenCounters(id) ==
    {jsonSink[i].VectorClock[id] : i \in {j \in 1..Len(jsonSink) : jsonSink[j].TracerIdentity = id}}

\* the thread after the clock step of an operation, about to call recordAction's send
Ticked(th, t, op, traceID, tok, newClock) ==
    [pc |-> "send", op |-> op, t |-> t, traceID |-> traceID, tok |-> tok,
     seq |-> tracer[t].ticks + 1, tickVC |-> newClock, preVC |-> tracer[t].clock,
     rec |-> NoRecord]

\* the Trace IDs drawn so far
UsedIDs == {tr.ID : tr \in traces} \cup {thr[th].traceID : th \in Threads}

\* Tracer.CreateTrace: a random ID, then trace.RecordAction(CreateTrace{}), whose
\* first step is LogLocalEvent
CreateTrace(th, t, id) ==
    /\ CanStart(th, t)
    /\ \A i \in TraceIDs : i < id => i \in UsedIDs
    /\ LET c == Tick(tracer[t].clock, tracer[t].identity) IN
       /\ thr' = [thr EXCEPT ![th] = Ticked(th, t, "CreateTrace", id, NoToken, c)]
       /\ tracer' = [tracer EXCEPT ![t].clock = c, ![t].ticks = @ + 1,
                                   ![t].echoes = Echoed(tracer[t].shouldPrint, TRUE, @)]
    /\ Started(th)
    /\ UNCHANGED <<srv, traces, tokens, jsonSink, shivizSink, lastVCs, produced, nFails>>

\* Trace.RecordAction -> Tracer.recordAction(trace, record, true): LogLocalEvent
RecordAction(th, tr) ==
    /\ CanStart(th, tr.t)
    /\ LET t == tr.t
           c == Tick(tracer[t].clock, tracer[t].identity) IN
       /\ thr' = [thr EXCEPT ![th] = Ticked(th, t, "TestAction", tr.ID, NoToken, c)]
       /\ tracer' = [tracer EXCEPT ![t].clock = c, ![t].ticks = @ + 1,
                                   ![t].echoes = Echoed(tracer[t].shouldPrint, TRUE, @)]
    /\ Started(th)
    /\ UNCHANGED <<srv, traces, tokens, jsonSink, shivizSink, lastVCs, produced, nFails>>

\* Trace.RecordAction with a record json.Marshal cannot serialize: the clock
\* step and the echo are those of any RecordAction
RecordUnmarshalable(th, tr) ==
    /\ CanStart(th, tr.t)
    /\ LET t == tr.t
           c == Tick(tracer[t].clock, tracer[t].identity) IN
       /\ thr' = [thr EXCEPT ![th] = Ticked(th, t, "BadAction", tr.ID, NoToken, c)]
       /\ tracer' = [tracer EXCEPT ![t].clock = c, ![t].ticks = @ + 1,
                                   ![t].echoes = Echoed(tracer[t].shouldPrint, TRUE, @)]
    /\ Started(th)
    /\ UNCHANGED <<srv, traces, tokens, jsonSink, shivizSink, lastVCs, produced, nFails>>

\* Tracer.Close: tracer.lock.Lock(), client.Close(), the deferred Unlock.  It
\* is taken at moments when no operation of the Tracer is about to issue its
\* call; no operation is started on a closed Tracer.
TracerClose(t) ==
    /\ tracer[t].state = "live"
    /\ tracer[t].lock = 0
    /\ \A th \in Threads : ~(thr[th].pc = "send" /\ thr[th].t = t)
    /\ tracer' = [tracer EXCEPT ![t].state = "closed"]
    /\ UNCHANGED <<srv, thr, traces, tokens, jsonSink, shivizSink, lastVCs, produced,
                   nOps, nFails, nOverlap>>

\* (mutant) SetShouldPrint without the deferred Unlock
SetShouldPrintKeepsLock(t, b) ==
    /\ tracer[t].state = "live"
    /\ tracer[t].lock = 0
    /\ tracer' = [tracer EXCEPT ![t].shouldPrint = b, ![t].lock = MaxThreads + 1]
    /\ UNCHANGED <<srv, thr, traces, tokens, jsonSink, shivizSink, lastVCs, produced,
                   nOps, nFails, nOverlap>>

\* Tracer.SetShouldPrint: tracer.lock.Lock(), the assignment, the deferred Unlock
SetShouldPrint(t, b) ==
    /\ tracer[t].state = "live"
    /\ tracer[t].lock = 0
    /\ tracer' = [tracer EXCEPT ![t].shouldPrint = b]
    /\ UNCHANGED <<srv, thr, traces, tokens, jsonSink, shivizSink, lastVCs, produced,
                   nOps, nFails, nOverlap>>

\* Trace.GenerateToken: PrepareSend, then recordAction(trace, GenerateTokenTrace{token}, false)
GenerateToken(th, tr) ==
    /\ CanStart(th, tr.t)
    /\ LET t == tr.t
           token == PrepareSend(tracer[t].clock, tracer[t].identity, tr.ID) IN
       /\ thr' = [thr EXCEPT ![th] = Ticked(th, t, "GenerateTokenTrace", tr.ID, token, token.vc)]
       /\ tracer' = [tracer EXCEPT ![t].clock = token.vc, ![t].ticks = @ + 1,
                                   ![t].echoes = Echoed(tracer[t].shouldPrint, FALSE, @)]
    /\ Started(th)
    /\ UNCHANGED <<srv, traces, tokens, jsonSink, shivizSink, lastVCs, produced, nFails>>

\* (mutant) the token's clock is not merged: the receive is a plain local event
ReceiveClockNoMerge(own, id, token, tickFirst) == Tick(own, id)

\* (mutant) the token's clock is merged but the receive is not counted as an event
ReceiveClockNoTick(own, id, token, tickFirst) == Merge(own, token.vc)

\* (mutant) the receiver's clock is replaced by the token's clock, then ticked
ReceiveClockOverwrite(own, id, token, tickFirst) == Tick(token.vc, id)

\* (mutant) the merge adds the token's counters to the receiver's instead of
\* taking the larger of the two
ReceiveClockSum(own, id, token, tickFirst) ==
    Tick([k \in Idents |-> own[k] + token.vc[k]], id)

\* the clock of a Tracer after ReceiveToken's UnpackReceive(token, &traceID)
ReceiveClock(own, id, token, tickFirst) == UnpackReceive(own, id, token.vc, tickFirst)

\* (mutant) ReceiveToken opens a Trace of its own instead of the token's
ReceiveTraceIDOwn(token) == MaxTraceID

\* the Trace ID ReceiveToken decodes from the token
ReceiveTraceID(token) == token.traceID

\* (mutant) ReceiveToken without tracer.lock.Lock()
ReceiveTokenNoLock(th, t, token, tickFirst) ==
    /\ CanStart(th, t)
    /\ LET c == ReceiveClock(tracer[t].clock, tracer[t].identity, token, tickFirst) IN
       /\ thr' = [thr EXCEPT ![th] =
                    Ticked(th, t, "ReceiveTokenTrace", ReceiveTraceID(token), token, c)]
       /\ tracer' = [tracer EXCEPT ![t].clock = c, ![t].ticks = @ + 1,
                                   ![t].echoes = Echoed(tracer[t].shouldPrint, FALSE, @)]
    /\ Started(th)
    /\ UNCHANGED <<srv, traces, tokens, jsonSink, shivizSink, lastVCs, produced, nFails>>

\* Tracer.ReceiveToken up to its call of recordAction: tracer.lock.Lock(), UnpackReceive
ReceiveToken(th, t, token, tickFirst) ==
    /\ CanStart(th, t)
    /\ tracer[t].lock = 0
    /\ LET c == ReceiveClock(tracer[t].clock, tracer[t].identity, token, tickFirst) IN
       /\ thr' = [thr EXCEPT ![th] =
                    Ticked(th, t, "ReceiveTokenTrace", ReceiveTraceID(token), token, c)]
       /\ tracer' = [tracer EXCEPT ![t].clock = c, ![t].ticks = @ + 1, ![t].lock = th,
                                   ![t].echoes = Echoed(tracer[t].shouldPrint, FALSE, @)]
    /\ Started(th)
    /\ UNCHANGED <<srv, traces, tokens, jsonSink, shivizSink, lastVCs, produced, nFails>>

\* (mutant) the record carries the clock from before the operation's clock step
RecordActionArgStale(th) ==
    LET t == thr[th].t IN
    [TracerIdentity |-> tracer[t].identity, TraceID |-> thr[th].traceID,
     Tag |-> thr[th].op, Body |-> Marshal(thr[th].op, thr[th].tok), VectorClock |-> thr[th].preVC,
     inst |-> t, seq |-> thr[th].seq, tickVC |-> thr[th].tickVC, preVC |-> thr[th].preVC]

\* the RecordActionArg recordAction builds: VectorClock is GetCurrentVC() at this moment
RecordActionArg(th) ==
    LET t == thr[th].t IN
    [TracerIdentity |-> tracer[t].identity, TraceID |-> thr[th].traceID,
     Tag |-> thr[th].op, Body |-> Marshal(thr[th].op, thr[th].tok), VectorClock |-> tracer[t].clock,
     inst |-> t, seq |-> thr[th].seq, tickVC |-> thr[th].tickVC, preVC |-> thr[th].preVC]

\* what the caller holds once the operation has returned: CreateTrace and
\* ReceiveToken hand out a Trace, GenerateToken a token, and ReceiveToken's
\* deferred Unlock releases tracer.lock
Returned(th) ==
    LET t == thr[th].t
        op == thr[th].op IN
    /\ traces' = IF op \in {"CreateTrace", "ReceiveTokenTrace"}
                 THEN traces \cup {[t |-> t, ID |-> thr[th].traceID]} ELSE traces
    /\ tokens' = IF op = "GenerateTokenTrace" THEN tokens \cup {thr[th].tok} ELSE tokens
    /\ tracer' = IF op = "ReceiveTokenTrace" THEN [tracer EXCEPT ![t].lock = 0] ELSE tracer

\* Tracer.recordAction from json.Marshal on: build the argument and issue
\* client.Call, which delivers the request to the server
Send(th) ==
    /\ thr[th].pc = "send"
    /\ LET arg == RecordActionArg(th) IN
       /\ thr' = [thr EXCEPT ![th].rec = arg, ![th].pc = "srvJson"]
       /\ produced' = [produced EXCEPT ![arg.TracerIdentity] =
                          [ok |-> TRUE, vc |-> arg.VectorClock]]
    /\ UNCHANGED <<srv, tracer, traces, tokens, jsonSink, shivizSink, lastVCs, nOps, nFails, nOverlap>>

\* the same, with client.Call returning an error (the request does not reach the
\* server): the error is logged and the operation returns
SendFails(th) ==
    /\ thr[th].pc = "send"
    /\ nFails < MaxFails
    /\ nFails' = nFails + 1
    /\ LET arg == RecordActionArg(th) IN
       produced' = [produced EXCEPT ![arg.TracerIdentity] =
                          [ok |-> TRUE, vc |-> arg.VectorClock]]
    /\ Returned(th)
    /\ thr' = [thr EXCEPT ![th] = IdleThread]
    /\ UNCHANGED <<srv, jsonSink, shivizSink, lastVCs, nOps, nOverlap>>

(* ---------------- server: RecordAction handler ---------------- *)

\* shivizLogger.log: the two lines of one record, written by one Write
ShivizLines(rec) ==
    << [kind |-> "host", host |-> rec.TracerIdentity, clock |-> rec.VectorClock],
       [kind |-> "event", traceID |-> rec.TraceID, tag |-> rec.Tag, body |-> rec.Body] >>

\* (mutant) the two lines go out in two Writes and the first lands before the
\* last line already in the sink
ShivizWriteTwice(sink, rec) ==
    SubSeq(sink, 1, Len(sink) - 1) \o <<ShivizLines(rec)[1]>>
        \o <<sink[Len(sink)]>> \o <<ShivizLines(rec)[2]>>

\* shivizLogger.log: s.w.Write(buffer.Bytes()), both lines in one Write
ShivizWrite(sink, rec) == sink \o ShivizLines(rec)

\* (mutant) the JSON line of a record is written twice
JsonWriteTwice(sink, rec) == Append(Append(sink, rec), rec)

\* json.Encoder.Encode: one line per record
JsonWrite(sink, rec) == Append(sink, rec)

\* (mutant) the handler replies once the JSON line is written and leaves the
\* ShiViz line to a goroutine of its own
SrvEncodeReplies(th) ==
    /\ thr[th].pc = "srvJson"
    /\ srv.files = "open"
    /\ jsonSink' = JsonWrite(jsonSink, thr[th].rec)
    /\ Returned(th)
    /\ thr' = [thr EXCEPT ![th] = IdleThread]
    /\ UNCHANGED <<srv, shivizSink, lastVCs, produced, nOps, nFails, nOverlap>>

\* RecordAction: recordEncoder.Encode(wrappedRecord)
SrvEncode(th) ==
    /\ thr[th].pc = "srvJson"
    /\ srv.files = "open"
    /\ jsonSink' = JsonWrite(jsonSink, thr[th].rec)
    /\ thr' = [thr EXCEPT ![th].pc = "srvShiviz"]
    /\ UNCHANGED <<srv, tracer, traces, tokens, shivizSink, lastVCs, produced, nOps, nFails, nOverlap>>

\* (mutant) the table keeps the larger own counter instead of the last arrival
SrvShivizKeepLarger(th) ==
    LET rec == thr[th].rec
        id == rec.TracerIdentity IN
    /\ thr[th].pc = "srvShiviz"
    /\ srv.files = "open"
    /\ shivizSink' = ShivizWrite(shivizSink, rec)
    /\ lastVCs' = IF lastVCs[id].ok /\ rec.VectorClock[id] < lastVCs[id].vc[id]
                  THEN lastVCs ELSE StoreLastVC(lastVCs, id, rec.VectorClock)
    /\ Returned(th)
    /\ thr' = [thr EXCEPT ![th] = IdleThread]
    /\ UNCHANGED <<srv, jsonSink, produced, nOps, nFails, nOverlap>>

\* RecordAction: shivizLogger.log(wrappedRecord), the table write, and the reply,
\* on which client.Call and the operation return
SrvShiviz(th) ==
    /\ thr[th].pc = "srvShiviz"
    /\ srv.files = "open"
    /\ shivizSink' = ShivizWrite(shivizSink, thr[th].rec)
    /\ lastVCs' = StoreLastVC(lastVCs, thr[th].rec.TracerIdentity, thr[th].rec.VectorClock)
    /\ Returned(th)
    /\ thr' = [thr EXCEPT ![th] = IdleThread]
    /\ UNCHANGED <<srv, jsonSink, produced, nOps, nFails, nOverlap>>

Next ==
    \/ \E t \in Tracers : NewTracer(t)
    \/ \E th \in Threads, t \in Tracers, id \in TraceIDs : CreateTrace(th, t, id)
    \/ \E th \in Threads, tr \in traces : RecordAction(th, tr)
    \/ \E th \in Threads, tr \in traces : GenerateToken(th, tr)
    \/ \E th \in Threads, t \in Tracers, token \in tokens, tickFirst \in BOOLEAN :
          ReceiveToken(th, t, token, tickFirst)
    \/ \E th \in Threads : Send(th)
    \/ \E th \in Threads : SendFails(th)
    \/ \E th \in Threads : SrvEncode(th)
    \/ \E th \in Threads : SrvShiviz(th)

Spec == Init /\ [][Next]_vars

(* ---------------- server life cycle: Open, Accept, Close ---------------- *)

\* (mutant) the JSON file is opened without truncating it
OpenJsonKeep(files, sink) == sink

\* Open: os.Create(Config.OutputFile) when recordFile is nil, an empty file
OpenJson(files, sink) == IF files = "open" THEN sink ELSE << >>

\* (mutant) the header is written on every Open, after what the file holds
OpenShivizAppend(files, sink) == sink \o ShivizHeader

\* Open: os.Create(Config.ShivizOutputFile) and newShivizLogger when
\* shivizRecordFile is nil
OpenShiviz(files, sink) == IF files = "open" THEN sink ELSE ShivizHeader

\* TracingServer.Open: the files if they are nil, a new rpc.Server, net.Listen
\* on Config.ServerBind, which fails while the earlier listener holds the address
Open ==
    /\ srv.close = "idle"
    /\ srv.opens < MaxOpens
    /\ jsonSink' = OpenJson(srv.files, jsonSink)
    /\ shivizSink' = OpenShiviz(srv.files, shivizSink)
    /\ srv' = [srv EXCEPT !.files = "open", !.opens = @ + 1, !.listener = "open",
                          !.ret = IF srv.listener = "open" THEN "err" ELSE "ok"]
    /\ UNCHANGED <<tracer, thr, traces, tokens, lastVCs, produced, nOps, nFails, nOverlap>>

\* `go tracingServer.Accept()`: the accept loop starts
Accept ==
    /\ srv.accept = "none"
    /\ srv.listener = "open"
    /\ srv' = [srv EXCEPT !.accept = "running"]
    /\ UNCHANGED <<tracer, thr, traces, tokens, jsonSink, shivizSink, lastVCs, produced,
                   nOps, nFails, nOverlap>>

\* (mutant) Accept returns after the loop without the send on acceptDone
AcceptBreakReturns ==
    /\ srv.accept = "running"
    /\ srv.listener = "closed"
    /\ srv' = [srv EXCEPT !.accept = "none"]
    /\ UNCHANGED <<tracer, thr, traces, tokens, jsonSink, shivizSink, lastVCs, produced,
                   nOps, nFails, nOverlap>>

\* Accept: Listener.Accept returns an error once the listener is closed, the
\* loop breaks and the goroutine blocks on acceptDone <- struct{}{}
AcceptBreak ==
    /\ srv.accept = "running"
    /\ srv.listener = "closed"
    /\ srv' = [srv EXCEPT !.accept = "exiting"]
    /\ UNCHANGED <<tracer, thr, traces, tokens, jsonSink, shivizSink, lastVCs, produced,
                   nOps, nFails, nOverlap>>

\* Accept: Listener.Accept returns an error although no Close was called (the
\* listener failed); the loop breaks all the same and the goroutine blocks on
\* acceptDone <- struct{}{}
AcceptFails ==
    /\ srv.accept = "running"
    /\ srv.listener = "open"
    /\ srv' = [srv EXCEPT !.accept = "exiting"]
    /\ UNCHANGED <<tracer, thr, traces, tokens, jsonSink, shivizSink, lastVCs, produced,
                   nOps, nFails, nOverlap>>

\* TracingServer.Close up to <-acceptDone: Listener.Close(), whose error (the
\* listener is closed already) is returned
Close ==
    /\ srv.close = "idle"
    /\ srv.listener # "nil"
    /\ srv' = IF srv.listener = "closed"
              THEN [srv EXCEPT !.ret = "err"]
              ELSE [srv EXCEPT !.listener = "closed", !.close = "wait", !.ret = ""]
    /\ UNCHANGED <<tracer, thr, traces, tokens, jsonSink, shivizSink, lastVCs, produced,
                   nOps, nFails, nOverlap>>

\* (mutant) Close goes on to the files without the receive on acceptDone
CloseFilesNoWait ==
    /\ srv.close = "wait"
    /\ srv' = [srv EXCEPT !.files = "closed", !.close = "idle", !.ret = "ok"]
    /\ UNCHANGED <<tracer, thr, traces, tokens, jsonSink, shivizSink, lastVCs, produced,
                   nOps, nFails, nOverlap>>

\* TracingServer.Close from <-acceptDone on: the accept loop has ended, both
\* files are closed and their fields set to nil.  The goroutines ServeConn
\* started are not waited for.
CloseFiles ==
    /\ srv.close = "wait"
    /\ srv.accept = "exiting"
    /\ srv' = [srv EXCEPT !.accept = "none", !.files = "closed", !.close = "idle",
                          !.ret = "ok"]
    /\ UNCHANGED <<tracer, thr, traces, tokens, jsonSink, shivizSink, lastVCs, produced,
                   nOps, nFails, nOverlap>>

\* RecordAction on a closed record file: Encode returns an error, the handler
\* returns it, client.Call returns it and recordAction logs it
SrvEncodeClosed(th) ==
    /\ thr[th].pc = "srvJson"
    /\ srv.files = "closed"
    /\ Returned(th)
    /\ thr' = [thr EXCEPT ![th] = IdleThread]
    /\ UNCHANGED <<srv, jsonSink, shivizSink, lastVCs, produced, nOps, nFails, nOverlap>>

\* RecordAction whose JSON line is written and whose ShiViz file is closed:
\* shivizLogger.log returns an error
SrvShivizClosed(th) ==
    /\ thr[th].pc = "srvShiviz"
    /\ srv.files = "closed"
    /\ Returned(th)
    /\ thr' = [thr EXCEPT ![th] = IdleThread]
    /\ UNCHANGED <<srv, jsonSink, shivizSink, lastVCs, produced, nOps, nFails, nOverlap>>

\* (mutant) recordAction calls again when the call returned an error
SrvShivizFailsRetried(th) ==
    /\ thr[th].pc = "srvShiviz"
    /\ srv.files = "open"
    /\ nFails < MaxFails
    /\ nFails' = nFails + 1
    /\ thr' = [thr EXCEPT ![th].pc = "srvJson"]
    /\ UNCHANGED <<srv, tracer, traces, tokens, jsonSink, shivizSink, lastVCs, produced,
                   nOps, nOverlap>>

\* RecordAction whose JSON line is written and whose ShiViz Write returns an
\* error on the open file (a full disk): the handler returns it, client.Call
\* returns it, recordAction logs it and the operation returns
SrvShivizFails(th) ==
    /\ thr[th].pc = "srvShiviz"
    /\ srv.files = "open"
    /\ nFails < MaxFails
    /\ nFails' = nFails + 1
    /\ Returned(th)
    /\ thr' = [thr EXCEPT ![th] = IdleThread]
    /\ UNCHANGED <<srv, jsonSink, shivizSink, lastVCs, produced, nOps, nOverlap>>

LifeInit ==
    /\ tracer = [t \in Tracers |-> Unborn]
    /\ thr = [th \in Threads |-> IdleThread]
    /\ traces = {}
    /\ tokens = {}
    /\ jsonSink = << >>
    /\ shivizSink = << >>
    /\ lastVCs = [k \in Idents |-> NoVC]
    /\ produced = [k \in Idents |-> NoVC]
    /\ nOps = 0
    /\ nFails = 0
    /\ nOverlap = 0
    /\ srv = Unopened

\* the client calls of LifeSpec are made one at a time (by thread 1), at most
\* MaxLifeOps of them
LifeNext ==
    \/ Open
    \/ Accept
    \/ AcceptBreak
    \/ AcceptFails
    \/ Close
    \/ CloseFiles
    \/ \E t \in Tracers : NewTracer(t)
    \/ \E t \in Tracers, id \in TraceIDs : nOps < MaxLifeOps /\ CreateTrace(1, t, id)
    \/ \E tr \in traces : nOps < MaxLifeOps /\ RecordAction(1, tr)
    \/ \E tr \in traces : nOps < MaxLifeOps /\ GenerateToken(1, tr)
    \/ \E t \in Tracers, token \in tokens, tickFirst \in BOOLEAN :
          nOps < MaxLifeOps /\ ReceiveToken(1, t, token, tickFirst)
    \/ Send(1)
    \/ SendFails(1)
    \/ SrvEncode(1)
    \/ SrvShiviz(1)
    \/ SrvEncodeClosed(1)
    \/ SrvShivizClosed(1)

LifeSpec == LifeInit /\ [][LifeNext]_vars

\* the goroutine running Accept and the goroutine running Close are scheduled:
\* a step of theirs that stays possible is eventually taken
LifeFairSpec ==
    LifeInit /\ [][LifeNext]_vars /\ WF_vars(AcceptBreak) /\ WF_vars(CloseFiles)

(* ---------------- client options: printing, unmarshalable records ---------------- *)

\* the client calls of PrintSpec are made one at a time (by thread 1), at most
\* MaxLifeOps of them, among them RecordAction of records that cannot be
\* serialized; SetShouldPrint is called at any moment; the server stays open
\* and at most MaxFails calls fail, before the request is delivered or at the
\* server's ShiViz write
PrintNext ==
    \/ \E t \in Tracers : NewTracer(t)
    \/ \E t \in Tracers, b \in BOOLEAN : SetShouldPrint(t, b)
    \/ \E t \in Tracers, id \in TraceIDs : nOps < MaxLifeOps /\ CreateTrace(1, t, id)
    \/ \E tr \in traces : nOps < MaxLifeOps /\ RecordAction(1, tr)
    \/ \E tr \in traces : nOps < MaxLifeOps /\ RecordUnmarshalable(1, tr)
    \/ \E tr \in traces : nOps < MaxLifeOps /\ GenerateToken(1, tr)
    \/ \E t \in Tracers, token \in tokens, tickFirst \in BOOLEAN :
          nOps < MaxLifeOps /\ ReceiveToken(1, t, token, tickFirst)
    \/ Send(1)
    \/ SendFails(1)
    \/ SrvEncode(1)
    \/ SrvShiviz(1)
    \/ SrvShivizFails(1)

PrintSpec == Init /\ [][PrintNext]_vars

(* ---------------- tracer.lock: ReceiveToken, Close, SetShouldPrint ---------------- *)

\* at most MaxOps calls, none failing, on the first Tracer of each identity:
\* CreateTrace and GenerateToken by thread 1, ReceiveToken by both threads (so
\* that two of them meet on one Tracer), with Tracer.Close and SetShouldPrint
\* at any moment
LockNext ==
    \/ \E t \in Tracers : FirstInstance(t) /\ NewTracer(t)
    \/ \E t \in Tracers, b \in BOOLEAN : SetShouldPrint(t, b)
    \/ \E t \in Tracers : TracerClose(t)
    \/ \E t \in Tracers : CreateTrace(1, t, 1)
    \/ \E tr \in traces : GenerateToken(1, tr)
    \/ \E th \in Threads, t \in Tracers, token \in tokens, tickFirst \in BOOLEAN :
          ReceiveToken(th, t, token, tickFirst)
    \/ \E th \in Threads : Send(th)
    \/ \E th \in Threads : SrvEncode(th)
    \/ \E th \in Threads : SrvShiviz(th)

LockSpec == Init /\ [][LockNext]_vars

(* ======================= properties ======================= *)

\* the records built so far that reached the server: those in the JSON sink and
\* those whose handler is running
InFlight == {thr[th].rec : th \in {x \in Threads : thr[x].pc \in {"srvJson", "srvShiviz"}}}
Received == {jsonSink[i] : i \in DOMAIN jsonSink}
AllRecords == Received \cup InFlight
ReceiveRecords == {r \in AllRecords : r.Tag = "ReceiveTokenTrace"}
GenerateRecords == {r \in AllRecords : r.Tag = "GenerateTokenTrace"}

\* another operation changed the Tracer's clock between the record's own clock
\* step and the snapshot the record carries
Overlapped(r) == r.VectorClock # r.tickVC

\* the clock of the last record of identity id the server has finished handling:
\* the last host line of id in the ShiViz sink
RECURSIVE LastAccepted(_, _)
LastAccepted(sink, id) ==
    IF sink = << >> THEN NoVC
    ELSE LET l == sink[Len(sink)] IN
         IF l.kind = "host" /\ l.host = id THEN [ok |-> TRUE, vc |-> l.clock]
         ELSE LastAccepted(SubSeq(sink, 1, Len(sink) - 1), id)

\* C1 (as claimed): of any two records the server received from one identity, the
\* later one has the strictly greater own counter.
C1_Monotonicity ==
    \A i, j \in DOMAIN jsonSink :
        (i < j /\ jsonSink[i].TracerIdentity = jsonSink[j].TracerIdentity)
        => jsonSink[j].VectorClock[jsonSink[j].TracerIdentity]
             > jsonSink[i].VectorClock[jsonSink[i].TracerIdentity]

\* C2 (as claimed): tick and remote call are one atomic unit, so every record
\* carries exactly the clock right after its own tick.
C2_TickAndCallAtomic == \A r \in AllRecords : r.VectorClock = r.tickVC

\* C3 (as claimed): the records of one Tracer reach the sink in the order of
\* their clock ticks.
C3_IssueOrder ==
    \A i, j \in DOMAIN jsonSink :
        (i < j /\ jsonSink[i].inst = jsonSink[j].inst) => jsonSink[i].seq < jsonSink[j].seq

C6_DiffersInSenderEntry ==
    \A r \in ReceiveRecords :
        /\ \A k \in Idents : r.VectorClock[k] >= r.Body.vc[k]
        /\ r.VectorClock # r.Body.vc
        /\ r.VectorClock[r.Body.pid] # r.Body.vc[r.Body.pid]

\* C6 (amended): the receiving clock dominates the sending clock entry-wise, and
\* it exceeds it in the receiver's own coordinate unless the token carries a
\* counter of the receiver's identity that is ahead of the receiver's clock.
C6_DiffersInReceiverEntry ==
    \A r \in ReceiveRecords :
        LET b == r.TracerIdentity IN
        /\ \A k \in Idents : r.VectorClock[k] >= r.Body.vc[k]
        /\ (r.Body.vc[b] <= r.preVC[b]) => r.VectorClock[b] > r.Body.vc[b]

\* C6 witness: a receive whose clock equals the sending clock in the sender's entry
C6_Witness ==
    \E r \in Received :
        /\ r.Tag = "ReceiveTokenTrace"
        /\ r.VectorClock[r.Body.pid] = r.Body.vc[r.Body.pid]
        /\ r.VectorClock[r.TracerIdentity] > r.Body.vc[r.TracerIdentity]

\* C7: the record of a ReceiveToken, and the Trace it returns, carry the ID of
\* the Trace whose GenerateToken produced the token.
C7_TraceContinuity ==
    \A g \in GenerateRecords, r \in ReceiveRecords :
        (r.Body = g.Body) => r.TraceID = g.TraceID

\* C7 witness: the sender holds two Traces and the token of the second was received
C7_Witness ==
    \E g, r \in Received :
        /\ g.Tag = "GenerateTokenTrace" /\ r.Tag = "ReceiveTokenTrace"
        /\ r.Body = g.Body /\ g.TraceID = 2
        /\ [t |-> g.inst, ID |-> 1] \in traces
        /\ [t |-> r.inst, ID |-> 2] \in traces

\* C8: a Tracer with an empty clock that receives a token without an entry for
\* its identity, with no other operation of that Tracer in between, sends a record
\* whose clock is the token's clock plus its own entry 1, under the Trace ID of
\* the generating Trace.
C8_FreshReceive ==
    \A r \in ReceiveRecords :
        (r.preVC = EmptyVC /\ r.Body.vc[r.TracerIdentity] = 0 /\ ~Overlapped(r))
        => /\ r.VectorClock = [r.Body.vc EXCEPT ![r.TracerIdentity] = 1]
           /\ \A g \in GenerateRecords : (g.Body = r.Body) => r.TraceID = g.TraceID

\* C8 witness: the scenario of TestTokenActions
C8_Witness ==
    \E g, r \in Received :
        /\ g.Tag = "GenerateTokenTrace" /\ r.Tag = "ReceiveTokenTrace" /\ r.Body = g.Body
        /\ g.VectorClock = [EmptyVC EXCEPT !["client1"] = 2]
        /\ r.TracerIdentity = "client2" /\ r.preVC = EmptyVC
        /\ r.VectorClock = [EmptyVC EXCEPT !["client1"] = 2, !["client2"] = 1]

C11_ClockInvariant ==
    [][\A t \in Tracers :
         tracer[t].state = "live"
         => LET id == tracer[t].identity IN
            /\ \A k \in Idents : tracer'[t].clock[k] >= tracer[t].clock[k]
            /\ (tracer'[t].ticks > tracer[t].ticks)
                 => tracer'[t].clock[id] > tracer[t].clock[id]
            /\ (\E k \in Idents \ {id} : tracer'[t].clock[k] # tracer[t].clock[k])
                 => \E th \in Threads :
                       /\ thr[th].pc = "idle" /\ thr'[th].pc = "send"
                       /\ thr'[th].op = "ReceiveTokenTrace" /\ thr'[th].t = t]_vars

\* C11 witness: a Tracer that has produced an event of its own receives a token
\* and holds an entry of another identity afterwards
C11_Witness ==
    \E th \in Threads :
        /\ thr[th].pc = "send" /\ thr[th].op = "ReceiveTokenTrace"
        /\ thr[th].seq >= 2
        /\ \E k \in Idents \ {tracer[thr[th].t].identity} :
              tracer[thr[th].t].clock[k] > thr[th].preVC[k]

\* the fields of a record that the call carries and the sinks hold
Core(r) ==
    [TracerIdentity |-> r.TracerIdentity, TraceID |-> r.TraceID, Tag |-> r.Tag,
     Body |-> r.Body, VectorClock |-> r.VectorClock]

\* the two-line blocks of the ShiViz sink after the header and the empty line
NumBlocks == (Len(shivizSink) - 2) \div 2

\* the record fields block b of the ShiViz sink shows
BlockCore(b) ==
    LET h == shivizSink[2 * b + 1]
        e == shivizSink[2 * b + 2] IN
    [TracerIdentity |-> h.host, TraceID |-> e.traceID, Tag |-> e.tag,
     Body |-> e.body, VectorClock |-> h.clock]

\* the handlers that have written the JSON line and not yet the ShiViz block
HalfDone == {th \in Threads : thr[th].pc = "srvShiviz"}

\* C12: the ShiViz sink is the header, an empty line and one two-line block per
\* accepted call, the JSON sink holds one line per accepted call (plus the line
\* of each call still being handled), and both sinks hold the fields of the
\* calls unchanged, each call once.
C12_OneRecordPerCall ==
    /\ SubSeq(shivizSink, 1, 2) = ShivizHeader
    /\ Len(shivizSink) = 2 + 2 * NumBlocks
    /\ Len(jsonSink) = NumBlocks + Cardinality(HalfDone)
    /\ \A b \in 1..NumBlocks :
          /\ shivizSink[2 * b + 1].kind = "host" /\ shivizSink[2 * b + 2].kind = "event"
    /\ \A i \in DOMAIN jsonSink :
          LET c == Core(jsonSink[i]) IN
          Cardinality({j \in DOMAIN jsonSink : Core(jsonSink[j]) = c})
            = Cardinality({b \in 1..NumBlocks : BlockCore(b) = c})
              + Cardinality({th \in HalfDone : Core(thr[th].rec) = c})

\* C12 witness: as in TestTwoClients, accepted calls of two identities and no
\* call under way
C12_Witness ==
    /\ \A th \in Threads : thr[th].pc = "idle"
    /\ Len(jsonSink) = 3 /\ Len(shivizSink) = 8
    /\ \A id \in Idents : \E i \in DOMAIN jsonSink : jsonSink[i].TracerIdentity = id

\* C13 (as claimed): handlers are serialized per call, so the two sinks list the
\* records in one order; in particular block b of the ShiViz sink and line b of
\* the JSON sink are of the same identity.
C13_SameOrder ==
    \A b \in 1..NumBlocks : BlockCore(b).TracerIdentity = jsonSink[b].TracerIdentity

\* C14: the ShiViz sink after its header is a sequence of blocks, each the host
\* line and the event line of one record the server received, with no line of
\* another record in between.
C14_BlocksAdjacent ==
    \A b \in 1..NumBlocks :
        /\ shivizSink[2 * b + 1].kind = "host" /\ shivizSink[2 * b + 2].kind = "event"
        /\ \E r \in Received : Core(r) = BlockCore(b)

\* C14 witness: two handlers of different Tracers ran at the same time and wrote
\* the sinks in different orders
C14_Witness ==
    /\ NumBlocks >= 2
    /\ \E b \in 1..NumBlocks : BlockCore(b).TracerIdentity # jsonSink[b].TracerIdentity

\* C15 (as claimed): a call being served when the server is closed has either
\* finished its writes or written nothing: no handler stands between its JSON
\* line and its ShiViz block once the files are closed.
C15_NoWriteAfterClose ==
    \A th \in Threads : thr[th].pc = "srvShiviz" => srv.files = "open"

\* the server after a Close that returned nil
Closed == srv.listener = "closed" /\ srv.files = "closed" /\ srv.close = "idle"

\* C16 (as claimed): Closed is terminal; no later step opens the server again
\* or touches a sink.
C16_ClosedTerminal ==
    [][Closed => (Closed' /\ UNCHANGED <<jsonSink, shivizSink>>)]_vars

\* C16 (amended): the only step that leaves Closed is an Open, which returns
\* nil, binds a new listener and creates both sinks anew: an empty JSON sink
\* and a ShiViz sink holding the header and the empty line.  Nothing else
\* changes a sink of a closed server, and a Close of it returns an error.
C16_ReopenRecreates ==
    [][Closed =>
         \/ /\ Closed'
            /\ UNCHANGED <<jsonSink, shivizSink>>
            /\ srv'.ret \in {"ok", "err"}
         \/ /\ srv'.listener = "open" /\ srv'.files = "open" /\ srv'.ret = "ok"
            /\ srv'.opens = srv.opens + 1
            /\ jsonSink' = << >>
            /\ shivizSink' = ShivizHeader]_vars

\* C16 witness: a server opened again after a Close, whose first life had
\* written a record
C16_Witness ==
    /\ srv.opens = 2 /\ srv.listener = "open" /\ srv.ret = "ok"
    /\ jsonSink = << >>
    /\ \E id \in Idents : lastVCs[id].ok

\* C17: the ShiViz sink of a server whose files exist starts with the header and
\* the empty line, and holds the header nowhere else.
C17_HeaderOnce ==
    (srv.files # "nil")
    => /\ Len(shivizSink) >= 2
       /\ SubSeq(shivizSink, 1, 2) = ShivizHeader
       /\ \A i \in 3..Len(shivizSink) : shivizSink[i].kind \in {"host", "event"}

\* C17 witness: a second Open was called and a record was written after it
C17_Witness ==
    /\ srv.opens = 2 /\ srv.files = "open"
    /\ Len(shivizSink) = 4

C19_ColdStart ==
    /\ \A t \in Tracers :
          (tracer[t].state = "unborn" /\ FirstInstance(t) /\ nOps = 0
             /\ ~GetLastVC(ConfigIdentity(t)).ok)
          => ENABLED NewTracer(t)
    /\ \A t \in Tracers :
          (tracer[t].state = "live" /\ ~tracer[t].rejoined /\ tracer[t].ticks = 0)
          => tracer[t].clock = EmptyVC
    /\ \A r \in AllRecords :
          (~tracer[r.inst].rejoined /\ r.seq = 1 /\ ~Overlapped(r)
             /\ r.Body.vc[r.TracerIdentity] = 0)
          => r.VectorClock[r.TracerIdentity] = 1

\* C19 witness: TestOneRecord, the first record of a Tracer of an unseen identity
\* is in the sink
C19_Witness ==
    \E r \in Received :
        /\ ~tracer[r.inst].rejoined /\ r.seq = 1 /\ r.Tag = "CreateTrace"
        /\ r.VectorClock[r.TracerIdentity] = 1

\* C20 (as claimed): a call whose remote call fails does not return normally; in
\* particular it hands its caller no Trace and no token.
C20_ErrorsPropagate ==
    [][\A th \in Threads : SendFails(th) => (traces' = traces /\ tokens' = tokens)]_vars

\* C21 (as claimed): when the payload of a RecordAction cannot be serialized, no
\* record of that event reaches the server or either sink.
C21_NoRecordOnMarshalError ==
    /\ \A r \in AllRecords : r.Tag # "BadAction"
    /\ \A i \in DOMAIN shivizSink : shivizSink[i].kind = "event" => shivizSink[i].tag # "BadAction"

Pending == {th \in Threads : thr[th].pc \in {"send", "srvJson"}}

C24_EchoBeforeCall ==
    [][\A t \in Tracers :
          /\ (tracer'[t].ticks = tracer[t].ticks + 1)
             => tracer'[t].echoes = (IF tracer[t].shouldPrint THEN tracer[t].echoes + 1
                                                             ELSE tracer[t].echoes)
          /\ (tracer'[t].ticks = tracer[t].ticks) => tracer'[t].echoes = tracer[t].echoes]_vars

\* C24 witness: the only call made so far failed before reaching the server and
\* its echo line was printed
C24_Witness ==
    /\ \A th \in Threads : thr[th].pc = "idle"
    /\ nOps = 1 /\ nFails = 1 /\ jsonSink = << >>
    /\ \E t \in Tracers : tracer[t].shouldPrint /\ tracer[t].ticks = 1 /\ tracer[t].echoes = 1

\* C25: a step that changes a Tracer's print flag changes nothing else: not the
\* clock or the lock of any Tracer, not an operation under way, a Trace, a
\* token, a record in flight or in a sink, nor the server's table.
C25_PrintFlagFrame ==
    [][(\E t \in Tracers : tracer'[t].shouldPrint # tracer[t].shouldPrint)
       => /\ \A u \in Tracers :
                tracer'[u] = [tracer[u] EXCEPT !.shouldPrint = tracer'[u].shouldPrint]
          /\ UNCHANGED <<thr, traces, tokens, jsonSink, shivizSink, lastVCs, produced,
                         srv, nOps, nFails, nOverlap>>]_vars

\* C25 witness: a Tracer whose printing was switched off before its first action
\* has its records in both sinks, and printing is on again
C25_Witness ==
    /\ \A th \in Threads : thr[th].pc = "idle"
    /\ \E t \in Tracers :
          /\ tracer[t].shouldPrint /\ tracer[t].echoes = 0 /\ tracer[t].ticks = 2
          /\ \E i, j \in DOMAIN jsonSink :
                /\ jsonSink[i].inst = t /\ jsonSink[i].seq = 1
                /\ jsonSink[j].inst = t /\ jsonSink[j].seq = 2
          /\ NumBlocks = Len(jsonSink)

\* C26: a record of a Tracer in a Trace is the CreateTrace record of that Trace,
\* a ReceiveTokenTrace record of a token carrying that Trace, or the record of
\* an action on a Trace handle the Tracer holds; and a Tracer comes to hold a
\* handle only when its own CreateTrace returns or when its own ReceiveToken of
\* an issued token carrying that Trace returns.
C26_JoinByCreateOrReceive ==
    /\ [](\A r \in AllRecords :
             /\ r.Tag \notin {"CreateTrace", "ReceiveTokenTrace"}
                => [t |-> r.inst, ID |-> r.TraceID] \in traces
             /\ r.Tag = "ReceiveTokenTrace" => r.TraceID = r.Body.traceID)
    /\ [][traces' # traces
          => \E th \in Threads :
                /\ thr[th].op \in {"CreateTrace", "ReceiveTokenTrace"}
                /\ thr[th].pc # "idle" /\ thr'[th].pc = "idle"
                /\ traces' = traces \cup {[t |-> thr[th].t, ID |-> thr[th].traceID]}
                /\ thr[th].op = "ReceiveTokenTrace"
                   => (thr[th].tok \in tokens /\ thr[th].tok.traceID = thr[th].traceID)]_vars

\* C26 witness: a Tracer that created no Trace has recorded an action in the
\* Trace of a token it received
C26_Witness ==
    \E r, q \in Received :
        /\ r.Tag = "TestAction" /\ q.Tag = "ReceiveTokenTrace"
        /\ q.inst = r.inst /\ q.TraceID = r.TraceID
        /\ \A c \in AllRecords : c.inst = r.inst => c.Tag # "CreateTrace"

\* C27 (as claimed): two CreateTrace calls, on one Tracer or on two, never
\* return the same Trace ID.
C27_UniqueTraceIDs ==
    \A r, q \in AllRecords :
        (r.Tag = "CreateTrace" /\ q.Tag = "CreateTrace" /\ r.TraceID = q.TraceID)
        => (r.inst = q.inst /\ r.seq = q.seq)

\* C28: a ReceiveToken of a token the same Tracer has received before (the
\* record of that receive reached the server) goes through like any other: it
\* returns the token's Trace ID again, leaves every clock entry but the
\* receiver's own unchanged, raises the own entry by exactly one and goes on to
\* send one more ReceiveTokenTrace record.
C28_Replay ==
    [][\A th \in Threads :
          (/\ thr[th].pc = "idle" /\ thr'[th].pc = "send"
           /\ thr'[th].op = "ReceiveTokenTrace"
           /\ \E r \in AllRecords :
                 /\ r.Tag = "ReceiveTokenTrace"
                 /\ r.inst = thr'[th].t /\ r.Body = thr'[th].tok)
          => LET t == thr'[th].t
                 id == tracer[t].identity IN
             /\ thr'[th].traceID = thr'[th].tok.traceID
             /\ \A r \in AllRecords :
                   (r.Tag = "ReceiveTokenTrace" /\ r.inst = t /\ r.Body = thr'[th].tok)
                   => r.TraceID = thr'[th].traceID
             /\ \A k \in Idents \ {id} : tracer'[t].clock[k] = tracer[t].clock[k]
             /\ tracer'[t].clock[id] = tracer[t].clock[id] + 1
             /\ tracer'[t].ticks = tracer[t].ticks + 1
             /\ thr'[th].seq = tracer'[t].ticks]_vars

\* C28 witness: both ReceiveTokenTrace records of a token received twice by one
\* Tracer are in the sink, in the same Trace, one own count apart
C28_Witness ==
    \E i, j \in DOMAIN jsonSink :
        LET r == jsonSink[i]
            q == jsonSink[j] IN
        /\ r.Tag = "ReceiveTokenTrace" /\ q.Tag = "ReceiveTokenTrace"
        /\ r.inst = q.inst /\ r.Body = q.Body /\ r.TraceID = q.TraceID
        /\ q.seq = r.seq + 1
        /\ q.VectorClock = Tick(r.VectorClock, r.TracerIdentity)

\* C29: the clock step of Trace.GenerateToken raises the sender's own entry by
\* exactly one and changes no other entry, and the token it returns carries the
\* sender's identity, the Trace ID and the sender's whole clock right after
\* that increment.
C29_GenerateTicksOnly ==
    [][\A th \in Threads :
          (thr[th].pc = "idle" /\ thr'[th].pc = "send" /\ thr'[th].op = "GenerateTokenTrace")
          => LET t == thr'[th].t
                 id == tracer[t].identity IN
             /\ tracer'[t].clock[id] = tracer[t].clock[id] + 1
             /\ \A k \in Idents \ {id} : tracer'[t].clock[k] = tracer[t].clock[k]
             /\ thr'[th].tok.vc = tracer'[t].clock
             /\ thr'[th].tok.pid = id
             /\ thr'[th].tok.traceID = thr'[th].traceID]_vars

\* C29 witness: a sender whose clock already held an entry of another identity
\* has generated a token, and the GenerateTokenTrace record is in the sink
C29_Witness ==
    \E r \in Received :
        /\ r.Tag = "GenerateTokenTrace"
        /\ \E k \in Idents \ {r.TracerIdentity} : r.preVC[k] > 0 /\ r.Body.vc[k] = r.preVC[k]
        /\ r.Body.vc[r.TracerIdentity] = r.preVC[r.TracerIdentity] + 1

\* the records of Tracer t in the JSON sink, in sink order
SinkOf(t) ==
    LET OfT(r) == r.inst = t IN SelectSeq(jsonSink, OfT)

\* C31: while all calls are made one at a time and none has failed, a Tracer
\* that started with an empty clock and has made only CreateTrace and
\* Trace.RecordAction calls has one record per finished call in the JSON sink,
\* in call order, the k-th with clock {identity: k}, the tag of the action, an
\* empty body for CreateTrace and the ID of the Trace it was recorded through
\* (a Trace the Tracer holds); the ShiViz sink holds as many blocks as records.
C31_OneThreadSequence ==
    (nOverlap = 0 /\ nFails = 0)
    => \A t \in Tracers :
          (/\ tracer[t].state = "live" /\ ~tracer[t].rejoined
           /\ \A r \in AllRecords : r.inst = t => r.Tag \in {"CreateTrace", "TestAction"}
           /\ \A th \in Threads : (thr[th].pc = "send" /\ thr[th].t = t)
                                    => thr[th].op \in {"CreateTrace", "TestAction"})
          => LET s == SinkOf(t)
                 id == tracer[t].identity
                 busy == {th \in Threads : thr[th].t = t /\ thr[th].pc \in {"send", "srvJson"}} IN
             /\ Len(s) = tracer[t].ticks - Cardinality(busy)
             /\ \A k \in DOMAIN s :
                   /\ s[k].seq = k
                   /\ s[k].TracerIdentity = id
                   /\ s[k].VectorClock = [EmptyVC EXCEPT ![id] = k]
                   /\ s[k].Tag = "CreateTrace" => s[k].Body = NoToken
                   /\ (s[k].Tag = "TestAction" \/ s[k] \notin InFlight)
                      => [t |-> t, ID |-> s[k].TraceID] \in traces
             /\ HalfDone = {} => NumBlocks = Len(jsonSink)

\* C31 witness: four calls of one thread on a fresh Tracer, two CreateTrace and
\* two RecordAction on two Traces, are all in the sink
C31_Witness ==
    /\ nOverlap = 0 /\ nFails = 0
    /\ \E t \in Tracers :
          LET s == SinkOf(t) IN
          /\ ~tracer[t].rejoined /\ Len(s) = 4
          /\ \A k \in 1..4 : s[k].VectorClock = [EmptyVC EXCEPT ![tracer[t].identity] = k]
          /\ s[1].Tag = "CreateTrace" /\ s[2].Tag = "CreateTrace"
          /\ s[3].Tag = "TestAction" /\ s[4].Tag = "TestAction"
          /\ s[3].TraceID # s[4].TraceID

\* C32 (as claimed): every GenerateTokenTrace record carries the Trace ID of its
\* token and, as VectorClock, exactly the clock embedded in that token, whatever
\* else runs on the Tracer.
C32_TokenRecordClock ==
    \A r \in GenerateRecords :
        /\ r.TraceID = r.Body.traceID
        /\ r.Body.pid = r.TracerIdentity
        /\ r.VectorClock = r.Body.vc

\* C33: once Close has closed the listener of an opened server whose Accept is
\* running, the Accept loop exits and hands over, and Close returns nil with
\* both sinks closed and Accept returned, whatever the connected Tracers do.
C33_ShutdownTerminates ==
    (srv.close = "wait" /\ srv.listener = "closed" /\ srv.accept = "running")
    ~> (srv.close = "idle" /\ srv.ret = "ok" /\ srv.accept = "none" /\ srv.files = "closed")

\* C33 witness: Close has returned nil on a server with a connected Tracer that
\* has recorded an action
C33_Witness ==
    /\ Closed /\ srv.ret = "ok" /\ srv.accept = "none"
    /\ \E t \in Tracers : tracer[t].state = "live" /\ tracer[t].ticks >= 1
    /\ Len(jsonSink) >= 1

HappenedBefore(a, b) == a # b /\ \A k \in Idents : a[k] <= b[k]

\* C35 (as claimed): of two records in the JSON sink, one whose clock happened
\* before the other's appears first; the same holds of the blocks of the ShiViz
\* sink.
C35_CausalOrder ==
    /\ \A i, j \in DOMAIN jsonSink :
          HappenedBefore(jsonSink[i].VectorClock, jsonSink[j].VectorClock) => i < j
    /\ \A a, b \in 1..NumBlocks :
          HappenedBefore(BlockCore(a).VectorClock, BlockCore(b).VectorClock) => a < b

\* the live Tracers of identity id, and the newest of them (0 when there is none)
LiveOf(id) == {t \in Tracers : tracer[t].state = "live" /\ tracer[t].identity = id}
Owner(id) == IF LiveOf(id) = {} THEN 0 ELSE CHOOSE t \in LiveOf(id) : \A u \in LiveOf(id) : u <= t

\* n is at most the own counter some Tracer of identity id holds
Reached(n, id) == n = 0 \/ \E t \in LiveOf(id) : n <= tracer[t].clock[id]

\* every clock held outside the Tracers: in records built, in flight or in the
\* sink, in tokens issued or being issued, and in the server's table
HeldClocks ==
    {r.VectorClock : r \in AllRecords}
    \cup {tok.vc : tok \in tokens}
    \cup {thr[th].tok.vc : th \in Threads}
    \cup {lastVCs[k].vc : k \in Idents}

\* C36 (as claimed): no entry for identity J, in the clock of a Tracer of another
\* identity, in a record, a token or the table, exceeds the own counter of the
\* Tracer that now stands for J (the newest one constructed for J).
C36_NotAheadOfOwner ==
    \A id \in Idents :
        Owner(id) # 0 =>
           /\ \A vc \in HeldClocks : vc[id] <= tracer[Owner(id)].clock[id]
           /\ \A t \in Tracers :
                 (tracer[t].state = "live" /\ tracer[t].identity # id)
                 => tracer[t].clock[id] <= tracer[Owner(id)].clock[id]

\* C36 (amended): no entry for identity J, in any Tracer's clock, record, token
\* or the table, exceeds the largest own counter a Tracer of identity J holds.
C36_NotAheadOfMaxOwn ==
    \A id \in Idents :
        /\ \A vc \in HeldClocks : Reached(vc[id], id)
        /\ \A t \in Tracers : Reached(tracer[t].clock[id], id)

\* C36 witness: a token was issued by a Tracer whose GenerateTokenTrace call
\* failed, a new Tracer was then constructed for the identity from the server's
\* last clock, and the token's entry is ahead of the new Tracer's own counter
C36_Witness ==
    /\ \A th \in Threads : thr[th].pc = "idle"
    /\ nFails = 1 /\ nOverlap = 0
    /\ \E t \in Tracers, tok \in tokens :
          /\ tracer[t].state = "live" /\ tracer[t].rejoined /\ tracer[t].ticks = 0
          /\ t = Owner(tok.pid)
          /\ tracer[t].clock = lastVCs[tok.pid].vc
          /\ tok.vc[tok.pid] > tracer[t].clock[tok.pid]
          /\ \A u \in LiveOf(tok.pid) \ {t} : tracer[u].clock = tok.vc


\* thread th is inside Tracer.ReceiveToken on Tracer t: between tracer.lock.Lock()
\* and the deferred Unlock
InReceive(th, t) ==
    thr[th].pc # "idle" /\ thr[th].op = "ReceiveTokenTrace" /\ thr[th].t = t

\* C37: ReceiveToken holds the Tracer's mutex from before the clock merge until
\* after its remote call and never waits for a mutex it holds.  In every
\* state the thread inside ReceiveToken on a Tracer is the holder of that
\* Tracer's mutex, nobody else holds it, and the holder's next step (its call
\* and the server's handling of it) is enabled; in every step, a change of
\* shouldPrint or the closing of the Tracer happens while no ReceiveToken is
\* in progress on that Tracer, and a ReceiveToken that begins on a Tracer
\* finds no other one in progress there.
C37_ReceiveTokenAtomic ==
    /\ [](\A t \in Tracers :
            /\ \A th \in Threads : InReceive(th, t) =>
                  /\ tracer[t].lock = th
                  /\ ENABLED (Send(th) \/ SrvEncode(th) \/ SrvShiviz(th))
            /\ tracer[t].lock # 0 => InReceive(tracer[t].lock, t))
    /\ [][\A t \in Tracers :
            /\ (tracer'[t].shouldPrint # tracer[t].shouldPrint
                  \/ (tracer'[t].state = "closed" /\ tracer[t].state # "closed"))
               => \A th \in Threads : ~InReceive(th, t) /\ ~InReceive(th, t)'
            /\ \A th \in Threads : (~InReceive(th, t) /\ InReceive(th, t)')
                  => \A o \in Threads \ {th} : ~InReceive(o, t)]_vars

\* a second ReceiveToken on a Tracer, by the other thread, is in progress after
\* a first one on the same Tracer has been recorded, on a Tracer whose
\* shouldPrint has been switched off
C37_Witness ==
    \E t \in Tracers :
        /\ InReceive(2, t) /\ thr[2].pc = "srvShiviz"
        /\ ~tracer[t].shouldPrint
        /\ \E k \in 1..Len(jsonSink) :
              jsonSink[k].Tag = "ReceiveTokenTrace" /\ jsonSink[k].inst = t


\* C38: the causal-graph sink never holds a record that the JSON sink lacks:
\* every block of the ShiViz sink (host line and event line) is the block of
\* some line of the JSON sink
C38_ShivizWithinJson ==
    \A k \in 1..(Len(shivizSink) - 1) :
        shivizSink[k].kind = "host" =>
            \E j \in 1..Len(jsonSink) :
                ShivizLines(jsonSink[j]) = <<shivizSink[k], shivizSink[k + 1]>>

====
